---- MODULE Spec2Model ----
(***************************************************************************)
(* PdfNarrator (src/main.py): chapter detection from a PDF's outline or    *)
(* by scanning page text, the chunker that cuts a page into speakable      *)
(* units, the interactive narration loop, and main()'s set-up and manual   *)
(* fallback flow.                                                          *)
(*                                                                         *)
(* Strings are sequences of one-character strings.  A line read from the   *)
(* user is modelled by what str.isdigit() and int() make of it.            *)
(***************************************************************************)
EXTENDS Integers, Sequences, FiniteSets, TLC

VARIABLES
    \* chunk_text_for_speaking
    text, max_chars, paragraphs, chunks, emitted, cpc,
    \* the document and detect_chapters
    doc, dpc, toc_ch, scan_i, hits, fetched, chapters,
    \* narrate_pages
    start_page, end_page, page, npc, narrated, cmds, msg,
    \* main
    mpc, voices, voice, rate, docOpen, vsel, fb

cvars == <<text, max_chars, paragraphs, chunks, emitted, cpc>>
dvars == <<dpc, toc_ch, scan_i, hits, fetched, chapters>>
nvars == <<start_page, end_page, page, npc, narrated, cmds, msg>>
mvars == <<mpc, voices, voice, rate, docOpen, vsel, fb>>
vars == <<cvars, doc, dvars, nvars, mvars>>

\* ------------------------------------------------------------------ bounds
MaxLen == 5          \* longest page text given to the chunker
MaxChars == 3        \* largest max_chars given to the chunker
MaxPages == 3        \* most pages in a document
MaxToc == 2          \* most entries in a document's outline
MaxVoices == 2       \* most voices the speech engine offers

\* the sentinel "no page yet" of the two filtering loops
NoPage == -9999

\* ------------------------------------------------------------ text helpers
Chars == {"a", ".", " ", "\n"}
WS == {" ", "\n"}
Punct == {".", "!", "?"}

RECURSIVE SeqsUpTo(_, _)
SeqsUpTo(S, n) ==
    IF n = 0 THEN {<<>>}
    ELSE LET shorter == SeqsUpTo(S, n - 1)
         IN  shorter \cup {Append(s, c) : s \in {t \in shorter : Len(t) = n - 1}, c \in S}

RECURSIVE lstrip(_)
lstrip(s) == IF s # <<>> /\ Head(s) \in WS THEN lstrip(Tail(s)) ELSE s

RECURSIVE rstrip(_)
rstrip(s) ==
    IF s # <<>> /\ s[Len(s)] \in WS THEN rstrip(SubSeq(s, 1, Len(s) - 1)) ELSE s

\* str.strip()
strip(s) == rstrip(lstrip(s))

\* re.sub(r"\s+", " ", s): every maximal run of whitespace becomes one space
RECURSIVE CollapseWS(_)
CollapseWS(s) ==
    IF s = <<>> THEN <<>>
    ELSE IF Head(s) \in WS THEN <<" ">> \o CollapseWS(lstrip(s))
    ELSE <<Head(s)>> \o CollapseWS(Tail(s))

normalize_whitespace(s) == strip(CollapseWS(s))

\* index of the last character of the maximal whitespace run that starts at i
RECURSIVE RunEnd(_, _)
RunEnd(s, i) == IF i < Len(s) /\ s[i + 1] \in WS THEN RunEnd(s, i + 1) ELSE i

\* the last newline of the whitespace run that starts at i (i itself if none)
LastNL(s, i) ==
    LET nls == {j \in i..RunEnd(s, i) : s[j] = "\n"}
    IN  CHOOSE j \in nls : \A k \in nls : k <= j

\* re.split(r"\n\s*\n", text): leftmost match, \s* greedy with backtracking
RECURSIVE SplitBlankLines(_, _, _)
SplitBlankLines(s, i, cur) ==
    IF i > Len(s) THEN <<cur>>
    ELSE IF s[i] = "\n" /\ LastNL(s, i) > i
         THEN <<cur>> \o SplitBlankLines(s, LastNL(s, i) + 1, <<>>)
         ELSE SplitBlankLines(s, i + 1, Append(cur, s[i]))

\* re.split(r"(?<=[.!?])\s+", p)
RECURSIVE SplitSentences(_, _, _)
SplitSentences(s, i, cur) ==
    IF i > Len(s) THEN <<cur>>
    ELSE IF s[i] \in WS /\ i > 1 /\ s[i - 1] \in Punct
         THEN <<cur>> \o SplitSentences(s, RunEnd(s, i) + 1, <<>>)
         ELSE SplitSentences(s, i + 1, Append(cur, s[i]))

RECURSIVE MapStrip(_)
MapStrip(ps) == IF ps = <<>> THEN <<>> ELSE <<strip(Head(ps))>> \o MapStrip(Tail(ps))

\* [p.strip() for p in re.split(r"\n\s*\n", text) if p.strip()]
Paragraphs(t) == SelectSeq(MapStrip(SplitBlankLines(t, 1, <<>>)), LAMBDA p : p # <<>>)

\* ----------------------------------------------------------------- chunker
\* (mutant of Fits: the joining space is not counted)
FitsNoSpace(buf, part, max) == Len(buf) + Len(part) <= max

\* the test that lets a sentence join the running buffer
Fits(buf, part, max) == Len(buf) + Len(part) + 1 <= max

\* (mutant of FlushRest: the remainder is forgotten)
FlushRestForgotten(out, buf) == out

\* after the loop: "if buf: chunks.append(buf)"
FlushRest(out, buf) == IF buf # <<>> THEN Append(out, buf) ELSE out

\* the greedy packing loop over the sentences of one paragraph
RECURSIVE Pack(_, _, _, _)
Pack(parts, buf, out, max) ==
    IF parts = <<>> THEN FlushRest(out, buf)
    ELSE LET part == strip(Head(parts))
         IN  IF part = <<>> THEN Pack(Tail(parts), buf, out, max)
             ELSE IF Fits(buf, part, max)
                  THEN Pack(Tail(parts), strip(buf \o <<" ">> \o part), out, max)
                  ELSE Pack(Tail(parts), part,
                            IF buf # <<>> THEN Append(out, buf) ELSE out, max)

\* the chunks of one (already normalized) paragraph
ChunkParagraph(p, max) ==
    IF Len(p) <= max THEN <<p>> ELSE Pack(SplitSentences(p, 1, <<>>), <<>>, <<>>, max)

RECURSIVE ChunkAll(_, _)
ChunkAll(ps, max) ==
    IF ps = <<>> THEN <<>>
    ELSE ChunkParagraph(normalize_whitespace(Head(ps)), max) \o ChunkAll(Tail(ps), max)

chunk_text_for_speaking(t, max) == ChunkAll(Paragraphs(t), max)

\* the call: the text is cut into its paragraphs
ChunkCall ==
    /\ cpc = "call"
    /\ paragraphs' = Paragraphs(text)
    /\ cpc' = "loop"
    /\ UNCHANGED <<text, max_chars, chunks, emitted>>
    /\ UNCHANGED <<doc, dvars, nvars, mvars>>

\* one turn of the loop over the paragraphs
ChunkStep ==
    /\ cpc = "loop"
    /\ paragraphs # <<>>
    /\ LET p == normalize_whitespace(Head(paragraphs))
           out == ChunkParagraph(p, max_chars)
       IN  /\ chunks' = chunks \o out
           /\ emitted' = Append(emitted, [para |-> p, out |-> out])
    /\ paragraphs' = Tail(paragraphs)
    /\ UNCHANGED <<text, max_chars, cpc>>
    /\ UNCHANGED <<doc, dvars, nvars, mvars>>

ChunkReturn ==
    /\ cpc = "loop"
    /\ paragraphs = <<>>
    /\ cpc' = "done"
    /\ UNCHANGED <<text, max_chars, paragraphs, chunks, emitted>>
    /\ UNCHANGED <<doc, dvars, nvars, mvars>>

ChunkIdle ==
    /\ text = <<>> /\ max_chars = 0 /\ paragraphs = <<>>
    /\ chunks = <<>> /\ emitted = <<>> /\ cpc = "idle"

\* --------------------------------------------------------------- documents
\* A page is "empty" (no text), "plain" (text, no heading among its first
\* lines) or "heading" (a line near its top matches a CHAPTER_PATTERN).
PageKinds == {"empty", "plain", "heading"}
Titles == {"Chapter 1", "Preface"}

TocEntries(n) == [lvl : {1, 2}, title : Titles, page : -1..(n + 1)]

\* len(doc) = n, doc.get_toc() = toc, page i's text has kind[i + 1]
DocsOf(n, tocLen, kinds) ==
    [n : {n}, toc : SeqsUpTo(TocEntries(n), tocLen), kind : [1..n -> kinds]]

Max(a, b) == IF a >= b THEN a ELSE b
Min(a, b) == IF a <= b THEN a ELSE b

page_text(d, i) == d.kind[i + 1]

\* the (label, title) of the heading found on a page; found is FALSE for None
find_chapter_heading_on_page(txt) ==
    IF txt = "heading" THEN [found |-> TRUE, label |-> "3", title |-> "The Return"]
    ELSE [found |-> FALSE, label |-> "", title |-> ""]

\* TOC_CHAPTER_HINT.search(title)
TOC_CHAPTER_HINT(title) == title = "Chapter 1"

\* --------------------------------------------------- chapters_from_toc
TocCandidates(toc) ==
    LET chapter_like == SelectSeq(toc, LAMBDA e : TOC_CHAPTER_HINT(e.title))
    IN  IF chapter_like # <<>> THEN chapter_like
        ELSE SelectSeq(toc, LAMBDA e : e.lvl = 1)

\* the loop that turns entries into zero-based start pages, first one wins
RECURSIVE TocStarts(_, _, _)
TocStarts(entries, seen_pages, n) ==
    IF entries = <<>> THEN <<>>
    ELSE LET e == Head(entries)
             start0 == Max(0, Min(e.page - 1, n - 1))
         IN  IF e.page = 0 \/ start0 \in seen_pages
             THEN TocStarts(Tail(entries), seen_pages, n)
             ELSE <<[sp |-> start0, title |-> e.title]>>
                  \o TocStarts(Tail(entries), seen_pages \cup {start0}, n)

RECURSIVE InsertByStart(_, _)
InsertByStart(sorted, x) ==
    IF sorted = <<>> THEN <<x>>
    ELSE IF x.sp < Head(sorted).sp THEN <<x>> \o sorted
    ELSE <<Head(sorted)>> \o InsertByStart(Tail(sorted), x)

\* starts.sort(key=lambda x: x[0]) (stable)
RECURSIVE SortByStart(_)
SortByStart(s) ==
    IF s = <<>> THEN <<>>
    ELSE InsertByStart(SortByStart(SubSeq(s, 1, Len(s) - 1)), s[Len(s)])

\* the end page of the i-th start (1-based here): next start minus one, or the last page
TocEndPage(starts, i, n) ==
    IF i + 1 <= Len(starts) THEN starts[i + 1].sp - 1 ELSE n - 1

TocChapters(starts, n) ==
    [i \in 1..Len(starts) |->
        [label |-> "TOC", title |-> starts[i].title, start_page |-> starts[i].sp,
         end_page |-> Max(starts[i].sp, TocEndPage(starts, i, n))]]

\* "remove tiny / bogus ranges"
RECURSIVE FilterBogus(_, _)
FilterBogus(chs, last_sp) ==
    IF chs = <<>> THEN <<>>
    ELSE IF Head(chs).start_page - last_sp >= 1
         THEN <<Head(chs)>> \o FilterBogus(Tail(chs), Head(chs).start_page)
         ELSE FilterBogus(Tail(chs), last_sp)

chapters_from_toc(d) ==
    IF d.toc = <<>> THEN <<>>
    ELSE LET starts == SortByStart(TocStarts(TocCandidates(d.toc), {}, d.n))
         IN  IF starts = <<>> THEN <<>>
             ELSE FilterBogus(TocChapters(starts, d.n), NoPage)

\* ------------------------------------------------ chapters_by_scanning
\* the test that keeps a heading match
Keep(page_i, last_page) == page_i - last_page >= 2

\* (mutant of NextLast: every match, kept or not, becomes the last page)
NextLastAnyMatch(kept, page_i, last_page) == page_i

\* last_page after a match at page_i that was kept or dropped
NextLast(kept, page_i, last_page) == IF kept THEN page_i ELSE last_page

RECURSIVE Dedup(_, _)
Dedup(hs, last_page) ==
    IF hs = <<>> THEN <<>>
    ELSE LET h == Head(hs)
             kept == Keep(h.sp, last_page)
         IN  (IF kept THEN <<h>> ELSE <<>>)
             \o Dedup(Tail(hs), NextLast(kept, h.sp, last_page))

\* (mutant of ScanEndPage: a chapter ends on the next chapter's first page)
ScanEndPageOverlap(dedup, idx, n) ==
    IF idx + 1 <= Len(dedup) THEN dedup[idx + 1].sp ELSE n - 1

ScanEndPage(dedup, idx, n) ==
    IF idx + 1 <= Len(dedup) THEN dedup[idx + 1].sp - 1 ELSE n - 1

ScanChapters(dedup, n) ==
    [idx \in 1..Len(dedup) |->
        [label |-> dedup[idx].label, title |-> dedup[idx].title,
         start_page |-> dedup[idx].sp,
         end_page |-> Max(dedup[idx].sp, ScanEndPage(dedup, idx, n))]]

\* the loop over all the pages that collects the heading matches
RECURSIVE AllHits(_, _)
AllHits(d, i) ==
    IF i >= d.n THEN <<>>
    ELSE LET hit == find_chapter_heading_on_page(page_text(d, i))
         IN  (IF hit.found THEN <<[sp |-> i, label |-> hit.label, title |-> hit.title]>>
              ELSE <<>>) \o AllHits(d, i + 1)

\* chapters_by_scanning as a function of the document
chapters_by_scanning(d) ==
    IF AllHits(d, 0) = <<>> THEN <<>>
    ELSE ScanChapters(Dedup(AllHits(d, 0), NoPage), d.n)

\* ----------------------------------------------------- detect_chapters
\* (mutant of TocAuthoritative: the test is inverted)
TocAuthoritativeInverted(ch) == ch = <<>>

\* "if toc_ch:" -- a non-empty outline result is returned as it is
TocAuthoritative(ch) == ch # <<>>

DetectToc ==
    /\ dpc = "start"
    /\ toc_ch' = chapters_from_toc(doc)
    /\ dpc' = "toc_done"
    /\ UNCHANGED <<scan_i, hits, fetched, chapters>>
    /\ UNCHANGED <<cvars, doc, nvars, mvars>>

DetectReturnToc ==
    /\ dpc = "toc_done"
    /\ TocAuthoritative(toc_ch)
    /\ chapters' = toc_ch
    /\ dpc' = "done"
    /\ UNCHANGED <<toc_ch, scan_i, hits, fetched>>
    /\ UNCHANGED <<cvars, doc, nvars, mvars>>

DetectFallback ==
    /\ dpc = "toc_done"
    /\ ~TocAuthoritative(toc_ch)
    /\ dpc' = "scan"
    /\ UNCHANGED <<toc_ch, scan_i, hits, fetched, chapters>>
    /\ UNCHANGED <<cvars, doc, nvars, mvars>>

\* one turn of the loop over the pages: fetch the text, look for a heading
ScanPage ==
    /\ dpc = "scan"
    /\ scan_i < doc.n
    /\ LET hit == find_chapter_heading_on_page(page_text(doc, scan_i))
       IN  hits' = IF hit.found
                   THEN Append(hits, [sp |-> scan_i, label |-> hit.label, title |-> hit.title])
                   ELSE hits
    /\ fetched' = Append(fetched, scan_i)
    /\ scan_i' = scan_i + 1
    /\ UNCHANGED <<dpc, toc_ch, chapters>>
    /\ UNCHANGED <<cvars, doc, nvars, mvars>>

\* after the loop: deduplicate, build the chapters, return them
ScanFinish ==
    /\ dpc = "scan"
    /\ scan_i = doc.n
    /\ chapters' = IF hits = <<>> THEN <<>>
                   ELSE ScanChapters(Dedup(hits, NoPage), doc.n)
    /\ dpc' = "done"
    /\ UNCHANGED <<toc_ch, scan_i, hits, fetched>>
    /\ UNCHANGED <<cvars, doc, nvars, mvars>>

DetectIdle ==
    /\ dpc = "idle" /\ toc_ch = <<>> /\ scan_i = 0
    /\ hits = <<>> /\ fetched = <<>> /\ chapters = <<>>

DetectReady ==
    /\ dpc = "start" /\ toc_ch = <<>> /\ scan_i = 0
    /\ hits = <<>> /\ fetched = <<>> /\ chapters = <<>>

\* -------------------------------------------------------------- user input
\* A line typed by the user, after .strip(): "text" is a line str.isdigit()
\* rejects (letters, a sign, the empty line), "dec" a decimal number, and
\* "sup" a line of digit characters that are not decimal digits (a
\* superscript two): str.isdigit() accepts it and int() raises ValueError.
NoLine == [kind |-> "text", val |-> 0]
Lines(n) ==
    {NoLine, [kind |-> "sup", val |-> 0]} \cup {[kind |-> "dec", val |-> k] : k \in 0..(n + 1)}

isdigit(l) == l.kind \in {"dec", "sup"}
IntRaises(l) == l.kind = "sup"

\* ------------------------------------------------------------ narrate_pages
\* the command last read, and the page the cursor was on when it was read
Command(c, l) == [c |-> c, line |-> l, from |-> page]

\* the jump of "g": the new cursor for a line int() can read
GotoTarget(l, cur, sp, ep) ==
    LET target == l.val - 1
    IN  IF sp <= target /\ target <= ep THEN target ELSE cur

\* (mutant of BackTarget: no clamp at the start of the range)
BackTargetUnclamped(cur, sp) == cur - 1

\* "b"
BackTarget(cur, sp) == Max(sp, cur - 1)

\* top of the loop with the cursor in the range: fetch the page and speak it
NarratePage ==
    /\ npc = "loop"
    /\ page <= end_page
    /\ narrated' = Append(narrated, page)
    /\ msg' = IF page_text(doc, page) = "empty"
              THEN "(No readable text on this page.)" ELSE "spoken"
    /\ npc' = "cmd"
    /\ UNCHANGED <<start_page, end_page, page, cmds>>
    /\ UNCHANGED <<cvars, doc, dvars, mvars>>

\* top of the loop with the cursor past the range: the function returns
NarrateExit ==
    /\ npc = "loop"
    /\ page > end_page
    /\ npc' = "done"
    /\ UNCHANGED <<start_page, end_page, page, narrated, cmds, msg>>
    /\ UNCHANGED <<cvars, doc, dvars, mvars>>

CmdNext ==
    /\ npc = "cmd"
    /\ page' = page + 1
    /\ cmds' = Command("", NoLine)
    /\ msg' = ""
    /\ npc' = "loop"
    /\ UNCHANGED <<start_page, end_page, narrated>>
    /\ UNCHANGED <<cvars, doc, dvars, mvars>>

CmdBack ==
    /\ npc = "cmd"
    /\ page' = BackTarget(page, start_page)
    /\ cmds' = Command("b", NoLine)
    /\ msg' = ""
    /\ narrated' = <<>>
    /\ npc' = "loop"
    /\ UNCHANGED <<start_page, end_page>>
    /\ UNCHANGED <<cvars, doc, dvars, mvars>>

CmdRepeat ==
    /\ npc = "cmd"
    /\ cmds' = Command("r", NoLine)
    /\ msg' = ""
    /\ narrated' = <<>>
    /\ npc' = "loop"
    /\ UNCHANGED <<start_page, end_page, page>>
    /\ UNCHANGED <<cvars, doc, dvars, mvars>>

\* "g" and the line read for the target page
CmdGoto ==
    /\ npc = "cmd"
    /\ \E l \in Lines(doc.n) :
         /\ cmds' = Command("g", l)
         /\ IF isdigit(l)
            THEN IF IntRaises(l)
                 THEN /\ npc' = "fault"
                      /\ msg' = "ValueError"
                      /\ UNCHANGED page
                 ELSE /\ page' = GotoTarget(l, page, start_page, end_page)
                      /\ msg' = IF start_page <= l.val - 1 /\ l.val - 1 <= end_page
                                THEN "" ELSE "Out of range."
                      /\ npc' = "loop"
            ELSE /\ msg' = "Invalid page number."
                 /\ npc' = "loop"
                 /\ UNCHANGED page
    /\ narrated' = <<>>
    /\ UNCHANGED <<start_page, end_page>>
    /\ UNCHANGED <<cvars, doc, dvars, mvars>>

CmdQuit ==
    /\ npc = "cmd"
    /\ cmds' = Command("q", NoLine)
    /\ msg' = ""
    /\ npc' = "done"
    /\ UNCHANGED <<start_page, end_page, page, narrated>>
    /\ UNCHANGED <<cvars, doc, dvars, mvars>>

CmdUnknown ==
    /\ npc = "cmd"
    /\ page' = page + 1
    /\ cmds' = Command("x", NoLine)
    /\ msg' = "Unknown command. Moving to next page."
    /\ npc' = "loop"
    /\ UNCHANGED <<start_page, end_page, narrated>>
    /\ UNCHANGED <<cvars, doc, dvars, mvars>>

\* narrate_pages(doc, engine, sp, ep) is entered
NarrateEnter(sp, ep) ==
    /\ start_page' = sp
    /\ end_page' = ep
    /\ page' = sp
    /\ npc' = "loop"
    /\ UNCHANGED <<narrated, cmds>>

NarrateIdle ==
    /\ start_page = 0 /\ end_page = 0 /\ page = 0 /\ npc = "idle"
    /\ narrated = <<>> /\ cmds = [c |-> "none", line |-> NoLine, from |-> 0]
    /\ msg = ""

\* --------------------------------------------------------------------- main
\* the engine's property before it is set, and after
Default == [set |-> FALSE, val |-> 0]
SetTo(v) == [set |-> TRUE, val |-> v]

\* set_voice(engine, voice_index): whether it raises ValueError
SetVoiceRaises(voice_index, nvoices) == ~(0 <= voice_index /\ voice_index < nvoices)

\* "Choice (Enter/v)" and, after "v", the voice index
MainTts ==
    /\ mpc = "tts"
    /\ \E cmd \in {"v", ""}, l \in Lines(doc.n) :
         /\ vsel' = [cmd |-> cmd, line |-> IF cmd = "v" THEN l ELSE NoLine]
         /\ IF cmd = "v" /\ isdigit(l)
            THEN IF IntRaises(l) \/ SetVoiceRaises(l.val, voices)
                 THEN mpc' = "fault" /\ UNCHANGED voice
                 ELSE mpc' = "rate" /\ voice' = SetTo(l.val)
            ELSE mpc' = "rate" /\ UNCHANGED voice
    /\ UNCHANGED <<voices, rate, docOpen, fb, cvars, doc, dvars, nvars>>

\* the speech rate, then detect_chapters(doc) is called
MainRate ==
    /\ mpc = "rate"
    /\ \E l \in Lines(doc.n) :
         IF isdigit(l)
         THEN IF IntRaises(l)
              THEN mpc' = "fault" /\ UNCHANGED <<rate, dpc>>
              ELSE mpc' = "detect" /\ rate' = SetTo(l.val) /\ dpc' = "start"
         ELSE mpc' = "detect" /\ dpc' = "start" /\ UNCHANGED rate
    /\ UNCHANGED <<voices, voice, docOpen, vsel, fb, cvars, doc, nvars,
                   toc_ch, scan_i, hits, fetched, chapters>>

\* max(0, min(int(x) - 1, len(doc) - 1))
ClampPage(v, n) == Max(0, Min(v - 1, n - 1))

\* no chapters: the manual page range
MainFallback ==
    /\ mpc = "detect" /\ dpc = "done" /\ chapters = <<>>
    /\ \E sp \in Lines(doc.n), ep \in Lines(doc.n) :
         /\ fb' = <<sp, ep>>
         /\ IF ~(isdigit(sp) /\ isdigit(ep))
            THEN /\ msg' = "Invalid page numbers."
                 /\ docOpen' = FALSE
                 /\ mpc' = "exit"
                 /\ UNCHANGED <<start_page, end_page, page, npc, narrated, cmds>>
            ELSE IF IntRaises(sp) \/ IntRaises(ep)
                 THEN /\ mpc' = "fault"
                      /\ UNCHANGED <<docOpen, nvars>>
                 ELSE LET s == ClampPage(sp.val, doc.n)
                          e == ClampPage(ep.val, doc.n)
                      IN  /\ NarrateEnter(Min(s, e), Max(s, e))
                          /\ mpc' = "narrate"
                          /\ UNCHANGED <<docOpen, msg>>
    /\ UNCHANGED <<voices, voice, rate, vsel, cvars, doc, dvars>>

\* choose_from_list over the detected chapters, then narrate_pages on it
MainChoose ==
    /\ mpc = "detect" /\ dpc = "done" /\ chapters # <<>>
    /\ \E l \in Lines(doc.n) :
         IF isdigit(l)
         THEN IF IntRaises(l)
              THEN mpc' = "fault" /\ UNCHANGED nvars
              ELSE IF 0 <= l.val - 1 /\ l.val - 1 < Len(chapters)
                   THEN /\ NarrateEnter(chapters[l.val].start_page, chapters[l.val].end_page)
                        /\ mpc' = "narrate"
                        /\ UNCHANGED msg
                   ELSE /\ msg' = "Invalid selection."
                        /\ UNCHANGED <<mpc, start_page, end_page, page, npc, narrated, cmds>>
         ELSE /\ msg' = "Invalid selection."
              /\ UNCHANGED <<mpc, start_page, end_page, page, npc, narrated, cmds>>
    /\ UNCHANGED <<voices, voice, rate, docOpen, vsel, fb, cvars, doc, dvars>>

\* narrate_pages returned: doc.close()
MainClose ==
    /\ mpc = "narrate" /\ npc = "done"
    /\ docOpen' = FALSE
    /\ mpc' = "exit"
    /\ UNCHANGED <<voices, voice, rate, vsel, fb, cvars, doc, dvars, nvars>>

MainIdle ==
    /\ mpc = "idle" /\ voices = 0 /\ voice = Default /\ rate = Default
    /\ docOpen = TRUE /\ vsel = [cmd |-> "", line |-> NoLine] /\ fb = <<>>

\* ----------------------------------------------------------- specifications
\* the chunker on every short text and every small limit
InitChunk ==
    /\ text \in SeqsUpTo(Chars, MaxLen)
    /\ max_chars \in 1..MaxChars
    /\ paragraphs = <<>> /\ chunks = <<>> /\ emitted = <<>> /\ cpc = "call"
    /\ doc = [n |-> 1, toc |-> <<>>, kind |-> <<"empty">>]
    /\ DetectIdle /\ NarrateIdle /\ MainIdle

NextChunk == ChunkCall \/ ChunkStep \/ ChunkReturn

SpecChunk == InitChunk /\ [][NextChunk]_vars

\* detect_chapters on every small document
InitDetect ==
    /\ \E n \in 1..MaxPages : doc \in DocsOf(n, MaxToc, {"plain", "heading"})
    /\ DetectReady /\ ChunkIdle /\ NarrateIdle /\ MainIdle

NextDetect == DetectToc \/ DetectReturnToc \/ DetectFallback \/ ScanPage \/ ScanFinish

SpecDetect == InitDetect /\ [][NextDetect]_vars

\* narrate_pages on every range of every small document
InitNarrate ==
    /\ \E n \in 1..MaxPages : doc \in DocsOf(n, 0, {"empty", "plain"})
    /\ start_page \in 0..(doc.n - 1)
    /\ end_page \in start_page..(doc.n - 1)
    /\ page = start_page
    /\ npc = "loop" /\ narrated = <<>> /\ msg = ""
    /\ cmds = [c |-> "none", line |-> NoLine, from |-> start_page]
    /\ ChunkIdle /\ DetectIdle /\ MainIdle

NextNarrate ==
    \/ NarratePage \/ NarrateExit \/ CmdNext \/ CmdBack \/ CmdRepeat
    \/ CmdGoto \/ CmdQuit \/ CmdUnknown

SpecNarrate == InitNarrate /\ [][NextNarrate]_vars

\* main() from the TTS set-up on, on small documents
InitMain ==
    /\ \E n \in 1..(MaxPages - 1) : doc \in DocsOf(n, 1, {"plain", "heading"})
    /\ voices \in 0..MaxVoices
    /\ mpc = "tts" /\ voice = Default /\ rate = Default /\ docOpen = TRUE
    /\ vsel = [cmd |-> "", line |-> NoLine] /\ fb = <<>>
    /\ ChunkIdle /\ DetectIdle /\ NarrateIdle

NextMain ==
    \/ MainTts \/ MainRate \/ MainFallback \/ MainChoose \/ MainClose
    \/ DetectToc \/ DetectReturnToc \/ DetectFallback \/ ScanPage \/ ScanFinish
    \/ NarratePage \/ NarrateExit \/ CmdNext \/ CmdBack \/ CmdRepeat
    \/ CmdGoto \/ CmdQuit \/ CmdUnknown

SpecMain == InitMain /\ [][NextMain]_vars

Spec == SpecMain

\* =================================================================== claims

\* ---- C1
IsPartition(chs, n) ==
    /\ \A i \in 1..Len(chs) :
         /\ 0 <= chs[i].start_page
         /\ chs[i].start_page <= chs[i].end_page
         /\ chs[i].end_page <= n - 1
    /\ \A i \in 1..(Len(chs) - 1) :
         /\ chs[i].start_page < chs[i + 1].start_page
         /\ chs[i].end_page + 1 = chs[i + 1].start_page
    /\ chs[Len(chs)].end_page = n - 1

\* C1: every non-empty chapter list detect_chapters returns, and every
\* non-empty list either detector yields, is a gap-free partition: start pages
\* strictly ascending, 0 <= start_page <= end_page <= pageCount-1, each
\* end_page + 1 equal to the next start_page, the last end_page pageCount-1.
C1_GapFreePartition ==
    /\ (dpc = "done" /\ chapters # <<>>) => IsPartition(chapters, doc.n)
    /\ (dpc # "start" /\ toc_ch # <<>>) => IsPartition(toc_ch, doc.n)
    /\ chapters_by_scanning(doc) # <<>> => IsPartition(chapters_by_scanning(doc), doc.n)

\* a scan result of two chapters, the first one of two pages
C1_Witness ==
    /\ dpc = "done" /\ toc_ch = <<>>
    /\ Len(chapters) >= 2
    /\ chapters[1].end_page > chapters[1].start_page

\* ---- C2
\* C2: detect_chapters is a strict two-tier fallback: a non-empty outline
\* result is returned as it is and no page text is ever fetched for
\* detection; an empty one makes the result exactly the scan's result.
C2_TwoTierFallback ==
    /\ (dpc # "start" /\ toc_ch # <<>>) =>
           /\ fetched = <<>> /\ hits = <<>> /\ dpc # "scan"
           /\ dpc = "done" => chapters = toc_ch
    /\ (dpc = "done" /\ toc_ch = <<>>) =>
           /\ chapters = chapters_by_scanning(doc)
           /\ fetched = [i \in 1..doc.n |-> i - 1]

\* the outline result was returned although the scan would have found something else
C2_Witness ==
    /\ dpc = "done" /\ toc_ch # <<>> /\ chapters = toc_ch
    /\ chapters_by_scanning(doc) # <<>>
    /\ Len(chapters_by_scanning(doc)) # Len(toc_ch)

\* ---- C9
HitPages(d) == {i \in 0..(d.n - 1) : find_chapter_heading_on_page(page_text(d, i)).found}
StartsOf(chs) == {chs[i].start_page : i \in 1..Len(chs)}

\* C9: after a scan, the first page with a match is kept, a later match is
\* kept if and only if it is at least 2 pages after the most recently kept
\* one, kept starts are pairwise at least 2 apart, and matches on pages 0 and
\* 1 only give the single chapter [0, pageCount-1].
C9_DedupAgainstLastKept ==
    (dpc = "done" /\ toc_ch = <<>>) =>
        LET H == HitPages(doc)
            S == StartsOf(chapters)
        IN  /\ S \subseteq H
            /\ Cardinality(S) = Len(chapters)
            /\ \A h \in H : (\A g \in H : h <= g) => h \in S
            /\ \A h \in H : h \in S <=> (\A k \in S : k < h => h - k >= 2)
            /\ \A a \in S, b \in S : a < b => b - a >= 2
            /\ H = {0, 1} =>
                   /\ Len(chapters) = 1
                   /\ chapters[1].start_page = 0
                   /\ chapters[1].end_page = doc.n - 1

\* matches on pages 0, 1 and 2: page 1 is dropped, page 2 is kept
C9_Witness ==
    /\ dpc = "done" /\ toc_ch = <<>>
    /\ {0, 1, 2} \subseteq HitPages(doc)
    /\ 0 \in StartsOf(chapters) /\ 1 \notin StartsOf(chapters) /\ 2 \in StartsOf(chapters)

\* ---- C3
InRange(p) == start_page <= p /\ p <= end_page

\* C3: every page fetched and narrated lies in [start_page, end_page]; no
\* command moves the cursor below start_page, and "b" at start_page stays there.
C3_NarratedInRange ==
    /\ \A i \in 1..Len(narrated) : InRange(narrated[i])
    /\ npc = "cmd" => InRange(page) /\ narrated # <<>> /\ narrated[Len(narrated)] = page
    /\ npc # "idle" => page >= start_page
    /\ (cmds.c = "b" /\ cmds.from = start_page) => page = start_page

\* "b" was entered at start_page and the page narrated next is start_page
C3_Witness ==
    /\ cmds.c = "b" /\ cmds.from = start_page /\ start_page < end_page
    /\ npc = "cmd" /\ narrated = <<start_page>>

\* ---- C4
GotoValid(l) == l.kind = "dec" /\ InRange(l.val - 1)

\* C4: "g" with a target moves the cursor to target-1 exactly when the
\* target is numeric and target-1 is in [start_page, end_page]; for every
\* other target the cursor stays, the session does not stop and an error is
\* reported.
C4_GotoMovesOrStays ==
    cmds.c = "g" =>
        IF GotoValid(cmds.line)
        THEN page = cmds.line.val - 1 /\ npc \in {"loop", "cmd"}
        ELSE /\ page = cmds.from
             /\ npc \in {"loop", "cmd"}
             /\ npc = "loop" => msg \in {"Out of range.", "Invalid page number."}

\* ---- C5
\* the pages narrated since the last command that was not an advance are
\* consecutive and ascending
Consecutive(ps) == \A i \in 1..(Len(ps) - 1) : ps[i + 1] = ps[i] + 1

\* C5: the session is over exactly when the cursor is past end_page or "q"
\* was entered; "q" stops at once; a run of advances from p visits p, p+1,
\* ..., end_page once each and ends after end_page - p + 1 commands.
C5_EndsOnlyPastEndOrQuit ==
    /\ npc \in {"done", "fault"} => (page > end_page \/ cmds.c = "q")
    /\ (npc = "loop" /\ page > end_page) => cmds.c \in {"", "x"}
    /\ cmds.c = "q" => npc = "done" /\ page = cmds.from
    /\ Consecutive(narrated)
    /\ (npc = "done" /\ cmds.c \in {"", "x"} /\ narrated # <<>>) =>
           /\ narrated[Len(narrated)] = end_page
           /\ page = end_page + 1

\* ---- C6
InvalidVoice(l, n) == l.kind = "dec" /\ ~(0 <= l.val /\ l.val < n)

\* C6: a numeric voice index that is no available voice's index is ignored:
\* the voice stays as it was, no fault is thrown and the run goes on.
C6_InvalidVoiceIgnored ==
    (vsel.cmd = "v" /\ InvalidVoice(vsel.line, voices)) =>
        mpc # "fault" /\ voice = Default

\* ---- C7
ValidPageNumber(l) == l.kind = "dec" /\ 1 <= l.val /\ l.val <= doc.n

\* C7: in the manual fallback, an input that is no decimal number in
\* 1..pageCount aborts the flow (no session, nothing narrated, document
\* closed); valid inputs s <= e start the session on [s-1, e-1].
C7_FallbackAbortsOnInvalid ==
    fb # <<>> =>
        IF ValidPageNumber(fb[1]) /\ ValidPageNumber(fb[2])
        THEN fb[1].val <= fb[2].val =>
                 /\ mpc \in {"narrate", "exit"}
                 /\ start_page = fb[1].val - 1 /\ end_page = fb[2].val - 1
        ELSE mpc = "exit" /\ ~docOpen /\ npc = "idle" /\ narrated = <<>>

\* ---- C8
Sentences(p) == SplitSentences(p, 1, <<>>)

RECURSIVE SentencesOfAll(_)
SentencesOfAll(cs) ==
    IF cs = <<>> THEN <<>> ELSE Sentences(Head(cs)) \o SentencesOfAll(Tail(cs))

\* C8: the chunks of a paragraph cut it only between sentences; a chunk is
\* longer than max_chars only if it is one sentence that is itself longer;
\* a paragraph of exactly max_chars characters gives exactly one chunk.
C8_ChunksRespectSentences ==
    \A i \in 1..Len(emitted) :
        LET e == emitted[i]
        IN  /\ SentencesOfAll(e.out) = Sentences(e.para)
            /\ \A j \in 1..Len(e.out) :
                   \/ Len(e.out[j]) <= max_chars
                   \/ Len(Sentences(e.out[j])) = 1
            /\ Len(e.para) = max_chars => Len(e.out) = 1

\* an over-long paragraph cut into several chunks, one holding two sentences
C8_Witness ==
    \E i \in 1..Len(emitted) :
        /\ Len(emitted[i].para) > max_chars
        /\ Len(emitted[i].out) >= 2
        /\ \E j \in 1..Len(emitted[i].out) : Len(Sentences(emitted[i].out[j])) >= 2

\* ---- C10
RECURSIVE JoinSpace(_)
JoinSpace(cs) ==
    IF cs = <<>> THEN <<>>
    ELSE IF Len(cs) = 1 THEN Head(cs)
    ELSE Head(cs) \o <<" ">> \o JoinSpace(Tail(cs))

\* C10: for every paragraph, within or over the limit, the chunks made for
\* it, joined in order by single spaces, are the normalized paragraph.
C10_ChunksRoundTrip ==
    \A i \in 1..Len(emitted) : JoinSpace(emitted[i].out) = emitted[i].para

\* an over-long paragraph with an over-long sentence, cut into several chunks
C10_Witness ==
    \E i \in 1..Len(emitted) :
        /\ Len(emitted[i].para) > max_chars
        /\ Len(emitted[i].out) >= 2
        /\ \E j \in 1..Len(emitted[i].out) : Len(emitted[i].out[j]) > max_chars

====
